---- MODULE Spec2Model ----
(***************************************************************************)
(* Model of the function registry, the dispatcher (GemmaFunctionCaller)    *)
(* and the schema validation layer of gemma-fncall-flow.                   *)
(*                                                                         *)
(* Python values are tagged records [t |-> tag, v |-> payload]; a str      *)
(* payload is a sequence of one-character strings, a list payload a        *)
(* sequence of values, a dict payload an insertion-ordered sequence of     *)
(* [k, v] entries.  Raw schema definitions (plain dicts whose key order    *)
(* is never observed) are TLA+ records, so that `key in d` is              *)
(* key \in DOMAIN d.  Optional attributes are sequences of length 0 or 1.  *)
(***************************************************************************)
EXTENDS Integers, Sequences, FiniteSets, TLC

VARIABLES functions, schemas, system_prompt, last, given, threads, overlapped

vars == <<functions, schemas, system_prompt, last, given, threads, overlapped>>

-----------------------------------------------------------------------------
(* Insertion-ordered dict (Python 3.7+ dict semantics).                    *)

EmptyDict == <<>>

DictKeys(d) == {d[i].k : i \in 1..Len(d)}

DictHas(d, key) == \E i \in 1..Len(d) : d[i].k = key

DictIndex(d, key) == CHOOSE i \in 1..Len(d) : d[i].k = key

DictGet(d, key) == d[DictIndex(d, key)].v

\* d[key] = val : an existing key keeps its position, a new key is appended
DictSet(d, key, val) ==
    IF DictHas(d, key)
    THEN [i \in 1..Len(d) |-> IF d[i].k = key THEN [k |-> key, v |-> val] ELSE d[i]]
    ELSE Append(d, [k |-> key, v |-> val])

\* del d[key]
DictDel(d, key) ==
    LET i == DictIndex(d, key)
    IN  [j \in 1..(Len(d) - 1) |-> IF j < i THEN d[j] ELSE d[j + 1]]

-----------------------------------------------------------------------------
(* Python values.                                                          *)

NoneV == [t |-> "none"]
StrV(s) == [t |-> "str", v |-> s]
IntV(n) == [t |-> "int", v |-> n]
FloatV(n) == [t |-> "float", v |-> n]
BoolV(b) == [t |-> "bool", v |-> b]
ListV(s) == [t |-> "list", v |-> s]
DictV(d) == [t |-> "dict", v |-> d]

\* isinstance with int and bool taken for one type
IsInstanceIntIsBool(value, cls) ==
    CASE cls = "str" -> value.t = "str"
      [] cls = "bool" -> value.t \in {"bool", "int"}
      [] cls = "int_or_float" -> value.t \in {"int", "float", "bool"}
      [] cls = "list" -> value.t = "list"
      [] cls = "dict" -> value.t = "dict"
      [] OTHER -> FALSE

\* isinstance(value, cls): bool is a subclass of int in Python
IsInstance(value, cls) ==
    CASE cls = "str" -> value.t = "str"
      [] cls = "bool" -> value.t = "bool"
      [] cls = "int_or_float" -> value.t \in {"int", "float", "bool"}
      [] cls = "list" -> value.t = "list"
      [] cls = "dict" -> value.t = "dict"
      [] OTHER -> FALSE

\* the number a numeric value compares as (True is 1, False is 0)
NumOf(value) == IF value.t = "bool" THEN (IF value.v THEN 1 ELSE 0) ELSE value.v

\* Python == on the values of this model
PyEq(a, b) ==
    IF a.t \in {"int", "float", "bool"} /\ b.t \in {"int", "float", "bool"}
    THEN NumOf(a) = NumOf(b)
    ELSE a.t = b.t /\ a = b

Ok == [exc |-> "none", msg |-> ""]
Raise(kind, message) == [exc |-> kind, msg |-> message]

-----------------------------------------------------------------------------
(* validation.py                                                           *)

ParameterType == {"string", "number", "boolean", "array", "object", "enum"}

ParameterSchemaKwargs ==
    {"type", "description", "required", "minimum", "maximum", "pattern",
     "enum_values", "items", "properties"}

Opt(rec, key) == IF key \in DOMAIN rec THEN <<rec[key]>> ELSE <<>>

\* outcome of calling ParameterSchema(**pd): the exception of __init__
ParameterSchemaInitExc(pd) ==
    IF ~(DOMAIN pd \subseteq ParameterSchemaKwargs) \/ ~({"type", "description"} \subseteq DOMAIN pd)
    THEN Raise("TypeError", "unexpected or missing keyword argument")
    ELSE IF pd.type \notin ParameterType
    THEN Raise("ValueError", "not a valid ParameterType")
    ELSE Ok

\* __init__ keeping a bound only when it is truthy: a bound of 0 is dropped
ParameterSchemaFalsyBounds(pd) ==
    [type |-> pd.type,
     description |-> pd.description,
     required |-> IF "required" \in DOMAIN pd THEN pd.required ELSE FALSE,
     minimum |-> IF "minimum" \in DOMAIN pd /\ pd.minimum # 0 THEN <<pd.minimum>> ELSE <<>>,
     maximum |-> IF "maximum" \in DOMAIN pd /\ pd.maximum # 0 THEN <<pd.maximum>> ELSE <<>>,
     pattern |-> Opt(pd, "pattern"),
     enum_values |-> Opt(pd, "enum_values"),
     items |-> Opt(pd, "items"),
     properties |-> Opt(pd, "properties")]

\* __init__ with required=True for its default
ParameterSchemaRequiredByDefault(pd) ==
    [type |-> pd.type,
     description |-> pd.description,
     required |-> IF "required" \in DOMAIN pd THEN pd.required ELSE TRUE,
     minimum |-> Opt(pd, "minimum"),
     maximum |-> Opt(pd, "maximum"),
     pattern |-> Opt(pd, "pattern"),
     enum_values |-> Opt(pd, "enum_values"),
     items |-> Opt(pd, "items"),
     properties |-> Opt(pd, "properties")]

\* ParameterSchema.__init__
ParameterSchema(pd) ==
    [type |-> pd.type,
     description |-> pd.description,
     required |-> IF "required" \in DOMAIN pd THEN pd.required ELSE FALSE,
     minimum |-> Opt(pd, "minimum"),
     maximum |-> Opt(pd, "maximum"),
     pattern |-> Opt(pd, "pattern"),
     enum_values |-> Opt(pd, "enum_values"),
     items |-> Opt(pd, "items"),
     properties |-> Opt(pd, "properties")]

\* re.match(pattern, value): the pattern is a sequence of tokens
\* [k |-> "^"], [k |-> "$"], [k |-> "lit", c |-> ch], [k |-> "plus", cs |-> chars];
\* the match starts at the first character and need not reach the end
RECURSIVE MatchHere(_, _, _, _)
MatchHere(p, i, s, j) ==
    IF i > Len(p) THEN TRUE
    ELSE CASE p[i].k = "^" -> j = 1 /\ MatchHere(p, i + 1, s, j)
           [] p[i].k = "$" -> /\ \/ j = Len(s) + 1
                                 \/ (j = Len(s) /\ s[j] = "\n")
                              /\ MatchHere(p, i + 1, s, j)
           [] p[i].k = "lit" -> /\ j <= Len(s)
                                /\ s[j] = p[i].c
                                /\ MatchHere(p, i + 1, s, j + 1)
           [] p[i].k = "plus" ->
                \E n \in 1..(Len(s) - j + 1) :
                    /\ \A m \in j..(j + n - 1) : s[m] \in p[i].cs
                    /\ MatchHere(p, i + 1, s, j + n)

\* re.fullmatch: the match has to reach the end of the value
ReFullMatch(pattern, s) == MatchHere(pattern \o <<[k |-> "$"]>>, 1, s, 1)

\* re.search: the match may start at any position of the value
ReSearch(pattern, s) == \E j \in 1..(Len(s) + 1) : MatchHere(pattern, 1, s, j)

ReMatch(pattern, s) == MatchHere(pattern, 1, s, 1)

\* `value in self.enum_values`
InList(value, lst) == \E i \in 1..Len(lst) : PyEq(lst[i], value)

\* ParameterSchema.validate: the exception raised, or Ok
RECURSIVE Validate(_, _)
RECURSIVE ValidateItems(_, _, _)
RECURSIVE ValidateProperties(_, _, _)

\* the loop over the elements that goes on after a failure and raises the
\* error of the last failing element
RECURSIVE ValidateItemsToTheEnd(_, _, _)
ValidateItemsToTheEnd(item_validator, value, i) ==
    IF i > Len(value) THEN Ok
    ELSE LET r == Validate(item_validator, value[i])
             rest == ValidateItemsToTheEnd(item_validator, value, i + 1)
         IN  IF rest.exc # "none" THEN rest ELSE r

ValidateItems(item_validator, value, i) ==
    IF i > Len(value) THEN Ok
    ELSE LET r == Validate(item_validator, value[i])
         IN  IF r.exc # "none" THEN r ELSE ValidateItems(item_validator, value, i + 1)

\* the loop over the properties that validates a listed property missing
\* from the value as None
ValidatePropertiesClosed(properties, value, i) ==
    IF i > Len(properties) THEN Ok
    ELSE LET init == ParameterSchemaInitExc(properties[i].v)
         IN  IF init.exc # "none" THEN init
             ELSE LET r == Validate(ParameterSchema(properties[i].v),
                                    IF DictHas(value, properties[i].k)
                                    THEN DictGet(value, properties[i].k)
                                    ELSE NoneV)
                  IN  IF r.exc # "none" THEN r
                      ELSE ValidateProperties(properties, value, i + 1)

ValidateProperties(properties, value, i) ==
    IF i > Len(properties) THEN Ok
    ELSE IF ~DictHas(value, properties[i].k)
    THEN ValidateProperties(properties, value, i + 1)
    ELSE LET init == ParameterSchemaInitExc(properties[i].v)
         IN  IF init.exc # "none" THEN init
             ELSE LET r == Validate(ParameterSchema(properties[i].v),
                                    DictGet(value, properties[i].k))
                  IN  IF r.exc # "none" THEN r
                      ELSE ValidateProperties(properties, value, i + 1)

Validate(self, value) ==
    IF value.t = "none"
    THEN IF self.required THEN Raise("ValidationError", "Required parameter is missing")
         ELSE Ok
    ELSE CASE self.type = "string" ->
                IF ~IsInstance(value, "str")
                THEN Raise("ValidationError", "Expected string")
                ELSE IF self.pattern # <<>> /\ self.pattern[1] # <<>>
                        /\ ~ReMatch(self.pattern[1], value.v)
                THEN Raise("ValidationError", "String does not match pattern")
                ELSE Ok
           [] self.type = "number" ->
                IF ~IsInstance(value, "int_or_float")
                THEN Raise("ValidationError", "Expected number")
                ELSE IF self.minimum # <<>> /\ NumOf(value) < self.minimum[1]
                THEN Raise("ValidationError", "Value is less than minimum")
                ELSE IF self.maximum # <<>> /\ NumOf(value) > self.maximum[1]
                THEN Raise("ValidationError", "Value is greater than maximum")
                ELSE Ok
           [] self.type = "boolean" ->
                IF ~IsInstance(value, "bool")
                THEN Raise("ValidationError", "Expected boolean")
                ELSE Ok
           [] self.type = "array" ->
                IF ~IsInstance(value, "list")
                THEN Raise("ValidationError", "Expected array")
                ELSE IF self.items = <<>> \/ DOMAIN self.items[1] = {} THEN Ok
                ELSE LET init == ParameterSchemaInitExc(self.items[1])
                     IN  IF init.exc # "none" THEN init
                         ELSE ValidateItems(ParameterSchema(self.items[1]), value.v, 1)
           [] self.type = "object" ->
                IF ~IsInstance(value, "dict")
                THEN Raise("ValidationError", "Expected object")
                ELSE IF self.properties = <<>> \/ self.properties[1] = <<>> THEN Ok
                ELSE ValidateProperties(self.properties[1], value.v, 1)
           [] self.type = "enum" ->
                IF self.enum_values = <<>>
                THEN Raise("ValidationError", "Enum values not specified in schema")
                ELSE IF ~InList(value, self.enum_values[1])
                THEN Raise("ValidationError", "Value not in enum values")
                ELSE Ok

\* FunctionSchema.__init__: the exception of building the parameter schemas
RECURSIVE FunctionSchemaInitExc(_, _)
FunctionSchemaInitExc(parameters, i) ==
    IF i > Len(parameters) THEN Ok
    ELSE LET init == ParameterSchemaInitExc(parameters[i].v)
         IN  IF init.exc # "none" THEN init
             ELSE FunctionSchemaInitExc(parameters, i + 1)

\* FunctionSchema.__init__
FunctionSchema(name, description, parameters, required) ==
    [name |-> name,
     description |-> description,
     parameters |-> [i \in 1..Len(parameters) |->
                        [k |-> parameters[i].k, v |-> ParameterSchema(parameters[i].v)]],
     required |-> required]

\* validate_parameters without the loop over `required`
CheckRequiredSkipped(required, params, i) == Ok

\* FunctionSchema.validate_parameters, first loop
RECURSIVE CheckRequired(_, _, _)
CheckRequired(required, params, i) ==
    IF i > Len(required) THEN Ok
    ELSE IF ~DictHas(params, required[i])
    THEN Raise("ValidationError", "Required parameter '" \o required[i] \o "' is missing")
    ELSE CheckRequired(required, params, i + 1)

\* FunctionSchema.validate_parameters, second loop
RECURSIVE CheckProvided(_, _, _)
CheckProvided(self, params, i) ==
    IF i > Len(params) THEN Ok
    ELSE IF ~DictHas(self.parameters, params[i].k)
    THEN Raise("ValidationError", "Unknown parameter: " \o params[i].k)
    ELSE LET r == Validate(DictGet(self.parameters, params[i].k), params[i].v)
         IN  IF r.exc = "ValidationError"
             THEN Raise("ValidationError",
                        "Invalid value for parameter '" \o params[i].k \o "': " \o r.msg)
             ELSE IF r.exc # "none" THEN r
             ELSE CheckProvided(self, params, i + 1)

\* FunctionSchema.validate_parameters
ValidateParameters(self, params) ==
    LET req == CheckRequired(self.required, params, 1)
    IN  IF req.exc # "none" THEN req ELSE CheckProvided(self, params, 1)

\* the loop over the parameters without the test for "description"
RECURSIVE CheckParameterDefinitionsTypeOnly(_, _)
CheckParameterDefinitionsTypeOnly(parameters, i) ==
    IF i > Len(parameters) THEN Ok
    ELSE LET param_name == parameters[i].k
             param_schema == parameters[i].v
         IN  IF "type" \notin DOMAIN param_schema
             THEN Raise("ValidationError", "Parameter '" \o param_name \o "' missing type")
             ELSE IF param_schema.type \notin ParameterType
             THEN Raise("ValidationError", "Invalid parameter type for '" \o param_name \o "'")
             ELSE CheckParameterDefinitionsTypeOnly(parameters, i + 1)

\* FunctionValidator.validate_function_definition, loop over the parameters
RECURSIVE CheckParameterDefinitions(_, _)
CheckParameterDefinitions(parameters, i) ==
    IF i > Len(parameters) THEN Ok
    ELSE LET param_name == parameters[i].k
             param_schema == parameters[i].v
         IN  IF "type" \notin DOMAIN param_schema
             THEN Raise("ValidationError", "Parameter '" \o param_name \o "' missing type")
             ELSE IF "description" \notin DOMAIN param_schema
             THEN Raise("ValidationError", "Parameter '" \o param_name \o "' missing description")
             ELSE IF param_schema.type \notin ParameterType
             THEN Raise("ValidationError", "Invalid parameter type for '" \o param_name \o "'")
             ELSE CheckParameterDefinitions(parameters, i + 1)

\* FunctionValidator.validate_function_definition
ValidateFunctionDefinition(schema) ==
    IF "name" \notin DOMAIN schema
    THEN Raise("ValidationError", "Missing required field in function definition: name")
    ELSE IF "description" \notin DOMAIN schema
    THEN Raise("ValidationError", "Missing required field in function definition: description")
    ELSE IF "parameters" \notin DOMAIN schema
    THEN Raise("ValidationError", "Missing required field in function definition: parameters")
    ELSE IF ~IsInstance(schema.parameters, "dict")
    THEN Raise("ValidationError", "Parameters must be an object")
    ELSE CheckParameterDefinitions(schema.parameters.v, 1)

\* a value that is neither None nor of a type the validation layer knows
\* (the lambda of the tests)
OtherV == [t |-> "function"]

\* the isinstance chain with the number test ahead of the bool test
InferredTypeNumberFirst(param_value) ==
    IF IsInstance(param_value, "str") THEN <<"string">>
    ELSE IF IsInstance(param_value, "int_or_float") THEN <<"number">>
    ELSE IF IsInstance(param_value, "bool") THEN <<"boolean">>
    ELSE IF IsInstance(param_value, "list") THEN <<"array">>
    ELSE IF IsInstance(param_value, "dict") THEN <<"object">>
    ELSE <<>>

\* the isinstance chain of create_schema_from_parameters: the ParameterType
\* value chosen for param_value, <<>> when the chain ends in the raise
InferredType(param_value) ==
    IF IsInstance(param_value, "str") THEN <<"string">>
    ELSE IF IsInstance(param_value, "bool") THEN <<"boolean">>
    ELSE IF IsInstance(param_value, "int_or_float") THEN <<"number">>
    ELSE IF IsInstance(param_value, "list") THEN <<"array">>
    ELSE IF IsInstance(param_value, "dict") THEN <<"object">>
    ELSE <<>>

\* the loop writing entries that carry the type alone
RECURSIVE CreateSchemaLoopTypeOnly(_, _, _)
CreateSchemaLoopTypeOnly(params, i, schema) ==
    IF i > Len(params) THEN [exc |-> "none", msg |-> "", result |-> <<schema>>]
    ELSE LET param_name == params[i].k
             param_type == InferredType(params[i].v)
         IN  IF param_type = <<>>
             THEN [exc |-> "ValidationError",
                   msg |-> "Unsupported parameter type for '" \o param_name \o "'",
                   result |-> <<>>]
             ELSE CreateSchemaLoopTypeOnly(params, i + 1,
                      DictSet(schema, param_name, [type |-> param_type[1]]))

\* FunctionValidator.create_schema_from_parameters, the loop from entry i on
\* with the dict `schema` built so far: the exception and the dict returned
RECURSIVE CreateSchemaLoop(_, _, _)
CreateSchemaLoop(params, i, schema) ==
    IF i > Len(params) THEN [exc |-> "none", msg |-> "", result |-> <<schema>>]
    ELSE LET param_name == params[i].k
             param_type == InferredType(params[i].v)
         IN  IF param_type = <<>>
             THEN [exc |-> "ValidationError",
                   msg |-> "Unsupported parameter type for '" \o param_name \o "'",
                   result |-> <<>>]
             ELSE CreateSchemaLoop(params, i + 1,
                      DictSet(schema, param_name,
                              [type |-> param_type[1],
                               description |-> "Parameter: " \o param_name]))

\* FunctionValidator.create_schema_from_parameters
CreateSchemaFromParameters(params) == CreateSchemaLoop(params, 1, EmptyDict)

-----------------------------------------------------------------------------
(* Inputs of the operations.                                               *)

MaxRetries == 3
MaxFails == 3

\* max_retries: int = 3
DefaultMaxRetries == 3

Names == {"f", "g"}

\* callables handed to register / update_function
Callables == {"func", "new_func"}

NameParam == [type |-> "string", description |-> "The name parameter"]
AgeParam == [type |-> "number", description |-> "The age parameter", minimum |-> 0]

\* raw definitions: the two of the tests, one that validate_function_definition
\* rejects (no description) and one that it accepts but FunctionSchema cannot
\* build (a parameter entry with a key ParameterSchema does not take)
RawDefs ==
    << [name |-> "test_func", description |-> "A test function",
        parameters |-> DictV(<<[k |-> "name", v |-> NameParam], [k |-> "age", v |-> AgeParam]>>),
        required |-> <<"name">>],
       [name |-> "test_func", description |-> "Updated test function",
        parameters |-> DictV(<<[k |-> "name", v |-> NameParam]>>)],
       [name |-> "invalid_func", parameters |-> DictV(<<>>)],
       [name |-> "extra_key", description |-> "Unknown constraint",
        parameters |-> DictV(<<[k |-> "name",
                                v |-> [type |-> "string", description |-> "x", default |-> 0]]>>)] >>

Alice == StrV(<<"A", "l">>)

\* parameter maps handed to call_function
ParamMaps ==
    << <<>>,
       <<[k |-> "name", v |-> Alice]>>,
       <<[k |-> "name", v |-> Alice], [k |-> "age", v |-> IntV(25)]>>,
       <<[k |-> "name", v |-> Alice], [k |-> "age", v |-> IntV(0 - 1)]>> >>

RetryValues == (0 - 1)..MaxRetries

-----------------------------------------------------------------------------
(* function_calling.py : FunctionRegistry                                  *)

\* outcome of a call: the exception raised (or "none"), its message, the
\* value returned and the number of invocations of the callable it made
Outcome(op, name, r, result, invocations) ==
    [op |-> op, name |-> name, exc |-> r.exc, msg |-> r.msg,
     result |-> result, invocations |-> invocations]

\* the part of register / update_function inside the try block: the
\* exception raised before anything is stored, or Ok
BuildExc(schema) ==
    LET v == ValidateFunctionDefinition(schema)
    IN  IF v.exc # "none" THEN v
        ELSE FunctionSchemaInitExc(schema.parameters.v, 1)

BuildSchema(schema) ==
    FunctionSchema(schema.name, schema.description, schema.parameters.v,
                   IF "required" \in DOMAIN schema THEN schema.required ELSE <<>>)

\* register without the membership test of line 16
RegisterExcNoDuplicateCheck(name, schema) == BuildExc(schema)

\* FunctionRegistry.register: the exception raised, or Ok
RegisterExc(name, schema) ==
    IF DictHas(functions, name)
    THEN Raise("ValidationError", "Function '" \o name \o "' is already registered")
    ELSE BuildExc(schema)

\* line 31, reached when nothing was raised (e is the outcome of the checks)
RegisterSchemas(name, schema, e) ==
    IF e.exc # "none" THEN schemas
    ELSE DictSet(schemas, name, BuildSchema(schema))

\* register storing the callable before the membership test
RegisterFunctionsBeforeCheck(name, func, e) ==
    IF e.exc # "none" /\ ~DictHas(functions, name) THEN functions
    ELSE DictSet(functions, name, func)

\* register storing the callable before the definition is validated
RegisterFunctionsBeforeValidation(name, func, e) ==
    IF DictHas(functions, name) THEN functions ELSE DictSet(functions, name, func)

\* line 32, reached when nothing was raised
RegisterFunctions(name, func, e) ==
    IF e.exc # "none" THEN functions
    ELSE DictSet(functions, name, func)

\* unregister raising the error kind of the validation layer
UnregisterExcAsValidation(name) ==
    IF ~DictHas(functions, name)
    THEN Raise("ValidationError", "Function " \o name \o " not found in registry")
    ELSE Ok

\* FunctionRegistry.unregister: the exception raised, or Ok
UnregisterExc(name) ==
    IF ~DictHas(functions, name)
    THEN Raise("ValueError", "Function " \o name \o " not found in registry")
    ELSE Ok

\* unregister emptying the callable map instead of deleting one key
UnregisterFunctionsClear(name, e) ==
    IF e.exc # "none" THEN functions ELSE EmptyDict

\* unregister without `del self._functions[name]`
UnregisterFunctionsKept(name, e) == functions

\* line 44
UnregisterFunctions(name, e) ==
    IF e.exc # "none" THEN functions ELSE DictDel(functions, name)

\* unregister without `del self._schemas[name]`
UnregisterSchemasKept(name, e) == schemas

\* line 45
UnregisterSchemas(name, e) ==
    IF e.exc # "none" THEN schemas ELSE DictDel(schemas, name)

\* update_function without the membership test of line 50 (an upsert)
UpdateExcUpsert(name, new_schema) == BuildExc(new_schema)

\* FunctionRegistry.update_function: the exception raised, or Ok
UpdateExc(name, new_schema) ==
    IF ~DictHas(functions, name)
    THEN Raise("ValueError", "Function " \o name \o " not found in registry")
    ELSE BuildExc(new_schema)

\* line 65, reached when nothing was raised
UpdateSchemas(name, new_schema, e) ==
    IF e.exc # "none" THEN schemas
    ELSE DictSet(schemas, name, BuildSchema(new_schema))

\* update_function without `self._functions[name] = new_func`
UpdateFunctionsKept(name, new_func, e) == functions

\* line 66, reached when nothing was raised
UpdateFunctions(name, new_func, e) ==
    IF e.exc # "none" THEN functions
    ELSE DictSet(functions, name, new_func)

\* FunctionRegistry.get_function / get_schema: <<>> is None
GetFunction(fs, name) == IF DictHas(fs, name) THEN <<DictGet(fs, name)>> ELSE <<>>
GetSchema(ss, name) == IF DictHas(ss, name) THEN <<DictGet(ss, name)>> ELSE <<>>

\* list_functions taking the name from the schema instead of the key
ListFunctionsDeclaredNames(ss) ==
    [i \in 1..Len(ss) |-> [name |-> ss[i].v.name, description |-> ss[i].v.description]]

\* FunctionRegistry.list_functions
ListFunctions(ss) ==
    [i \in 1..Len(ss) |-> [name |-> ss[i].k, description |-> ss[i].v.description]]

-----------------------------------------------------------------------------
(* function_calling.py : GemmaFunctionCaller                               *)

Sentinel == <<"No functions are currently available.">>
Header == "Available functions:\n\n"

PromptLine(func) == "- " \o func.name \o ": " \o func.description \o "\n"

\* _build_system_prompt without the empty case of lines 97-98
BuildSystemPromptNoSentinel(ss) ==
    <<Header>> \o [i \in 1..Len(ss) |-> PromptLine(ListFunctions(ss)[i])]

\* GemmaFunctionCaller._build_system_prompt: the text as the sequence of
\* the pieces that are concatenated
BuildSystemPrompt(ss) ==
    LET fns == ListFunctions(ss)
    IN  IF fns = <<>> THEN Sentinel
        ELSE <<Header>> \o [i \in 1..Len(fns) |-> PromptLine(fns[i])]

\* the description of the failure of the i-th invocation of a callable
ErrorOf(i) == "error " \o ToString(i)

\* the callable's result names the callable that produced it
ResultOf(function) == <<function>>

\* the retry loop with `retries <= max_retries`: one attempt too many
RECURSIVE RetryLoopOneMore(_, _, _, _, _, _)
RetryLoopOneMore(name, function, max_retries, k, retries, last_error) ==
    IF retries <= max_retries
    THEN IF retries + 1 > k
         THEN Outcome("call", name, Ok, ResultOf(function), retries + 1)
         ELSE RetryLoopOneMore(name, function, max_retries, k, retries + 1,
                               <<ErrorOf(retries + 1)>>)
    ELSE Outcome("call", name,
                 Raise("RuntimeError",
                       "Function execution failed: "
                           \o (IF last_error = <<>> THEN "None" ELSE last_error[1])),
                 <<>>, retries)

\* the retry loop of call_function; the callable fails on its first k
\* invocations and then succeeds.  last_error is <<>> for None
RECURSIVE RetryLoop(_, _, _, _, _, _)
RetryLoop(name, function, max_retries, k, retries, last_error) ==
    IF retries < max_retries
    THEN IF retries + 1 > k
         THEN Outcome("call", name, Ok, ResultOf(function), retries + 1)
         ELSE RetryLoop(name, function, max_retries, k, retries + 1, <<ErrorOf(retries + 1)>>)
    ELSE Outcome("call", name,
                 Raise("RuntimeError",
                       "Function execution failed: "
                           \o (IF last_error = <<>> THEN "None" ELSE last_error[1])),
                 <<>>, retries)

\* call_function without the validate_parameters step
CallOutcomeUnvalidated(name, parameters, max_retries, k) ==
    LET function == GetFunction(functions, name)
        schema == GetSchema(schemas, name)
    IN  IF function = <<>>
        THEN Outcome("call", name, Raise("ValueError", "Function " \o name \o " not found"), <<>>, 0)
        ELSE IF schema = <<>>
        THEN Outcome("call", name,
                     Raise("ValueError", "Schema for function " \o name \o " not found"), <<>>, 0)
        ELSE RetryLoop(name, function[1], max_retries, k, 0, <<>>)

\* GemmaFunctionCaller.call_function
CallOutcome(name, parameters, max_retries, k) ==
    LET function == GetFunction(functions, name)
        schema == GetSchema(schemas, name)
    IN  IF function = <<>>
        THEN Outcome("call", name, Raise("ValueError", "Function " \o name \o " not found"), <<>>, 0)
        ELSE IF schema = <<>>
        THEN Outcome("call", name,
                     Raise("ValueError", "Schema for function " \o name \o " not found"), <<>>, 0)
        ELSE LET v == ValidateParameters(schema[1], parameters)
             IN  IF v.exc # "none" THEN Outcome("call", name, v, <<>>, 0)
                 ELSE RetryLoop(name, function[1], max_retries, k, 0, <<>>)

-----------------------------------------------------------------------------
(* The state machine: one action per public operation.                     *)

\* `given` holds the arguments of a call of one of the stateless validation
\* operations; no such call is under way in the registry and the caller
NoCall == [fn |-> "none"]

\* `threads` holds the position and the locals of every thread that is
\* inside an operation of the registry; the operations of the specifications
\* below are called from one thread and run to their end in one step.
\* `overlapped` records whether an operation was ever entered while another
\* was under way
NoThreads == <<>>

Init ==
    /\ functions = EmptyDict
    /\ schemas = EmptyDict
    /\ system_prompt = BuildSystemPrompt(EmptyDict)
    /\ last = Outcome("init", "", Ok, <<>>, 0)
    /\ threads = NoThreads
    /\ overlapped = FALSE
    /\ given = NoCall

\* a direct register that also rebuilds the caller's prompt
RegisterRebuilding(name, func, schema) ==
    LET e == RegisterExc(name, schema)
    IN  /\ functions' = RegisterFunctions(name, func, e)
        /\ schemas' = RegisterSchemas(name, schema, e)
        /\ last' = Outcome("register", name, e, <<>>, 0)
        /\ system_prompt' = IF e.exc # "none" THEN system_prompt
                            ELSE BuildSystemPrompt(schemas')
        /\ UNCHANGED <<given, threads, overlapped>>

\* FunctionRegistry.register called directly
Register(name, func, schema) ==
    LET e == RegisterExc(name, schema)
    IN  /\ functions' = RegisterFunctions(name, func, e)
        /\ schemas' = RegisterSchemas(name, schema, e)
        /\ last' = Outcome("register", name, e, <<>>, 0)
        /\ UNCHANGED <<system_prompt, given, threads, overlapped>>

\* FunctionRegistry.unregister called directly
Unregister(name) ==
    LET e == UnregisterExc(name)
    IN  /\ functions' = UnregisterFunctions(name, e)
        /\ schemas' = UnregisterSchemas(name, e)
        /\ last' = Outcome("unregister", name, e, <<>>, 0)
        /\ UNCHANGED <<system_prompt, given, threads, overlapped>>

\* FunctionRegistry.update_function called directly
UpdateFunction(name, new_func, new_schema) ==
    LET e == UpdateExc(name, new_schema)
    IN  /\ functions' = UpdateFunctions(name, new_func, e)
        /\ schemas' = UpdateSchemas(name, new_schema, e)
        /\ last' = Outcome("update_function", name, e, <<>>, 0)
        /\ UNCHANGED <<system_prompt, given, threads, overlapped>>

\* GemmaFunctionCaller.update_system_prompt
UpdateSystemPrompt ==
    /\ system_prompt' = BuildSystemPrompt(schemas)
    /\ last' = Outcome("update_system_prompt", "", Ok, <<>>, 0)
    /\ UNCHANGED <<functions, schemas, given, threads, overlapped>>

\* GemmaFunctionCaller.register_function: the prompt is rebuilt only when
\* registry.register returned
CallerRegisterFunction(name, func, schema) ==
    LET e == RegisterExc(name, schema)
    IN  /\ functions' = RegisterFunctions(name, func, e)
        /\ schemas' = RegisterSchemas(name, schema, e)
        /\ last' = Outcome("register_function", name, e, <<>>, 0)
        /\ system_prompt' = IF e.exc # "none" THEN system_prompt
                            ELSE BuildSystemPrompt(schemas')
        /\ UNCHANGED <<given, threads, overlapped>>

\* unregister_function without the call of update_system_prompt
CallerUnregisterFunctionStale(name) ==
    LET e == UnregisterExc(name)
    IN  /\ functions' = UnregisterFunctions(name, e)
        /\ schemas' = UnregisterSchemas(name, e)
        /\ last' = Outcome("unregister_function", name, e, <<>>, 0)
        /\ UNCHANGED <<system_prompt, given, threads, overlapped>>

\* GemmaFunctionCaller.unregister_function
CallerUnregisterFunction(name) ==
    LET e == UnregisterExc(name)
    IN  /\ functions' = UnregisterFunctions(name, e)
        /\ schemas' = UnregisterSchemas(name, e)
        /\ last' = Outcome("unregister_function", name, e, <<>>, 0)
        /\ system_prompt' = IF e.exc # "none" THEN system_prompt
                            ELSE BuildSystemPrompt(schemas')
        /\ UNCHANGED <<given, threads, overlapped>>

\* GemmaFunctionCaller.update_function
CallerUpdateFunction(name, new_func, new_schema) ==
    LET e == UpdateExc(name, new_schema)
    IN  /\ functions' = UpdateFunctions(name, new_func, e)
        /\ schemas' = UpdateSchemas(name, new_schema, e)
        /\ last' = Outcome("caller_update_function", name, e, <<>>, 0)
        /\ system_prompt' = IF e.exc # "none" THEN system_prompt
                            ELSE BuildSystemPrompt(schemas')
        /\ UNCHANGED <<given, threads, overlapped>>

\* call_function ending with a call of update_system_prompt
CallFunctionRebuilding(name, parameters, max_retries, k) ==
    /\ last' = CallOutcome(name, parameters, max_retries, k)
    /\ system_prompt' = BuildSystemPrompt(schemas)
    /\ UNCHANGED <<functions, schemas, given, threads, overlapped>>

\* GemmaFunctionCaller.call_function
CallFunction(name, parameters, max_retries, k) ==
    /\ last' = CallOutcome(name, parameters, max_retries, k)
    /\ UNCHANGED <<functions, schemas, system_prompt, given, threads, overlapped>>

RegistryNext ==
    \/ \E name \in Names, func \in Callables, i \in 1..Len(RawDefs) :
            Register(name, func, RawDefs[i])
    \/ \E name \in Names : Unregister(name)
    \/ \E name \in Names, func \in Callables, i \in 1..Len(RawDefs) :
            UpdateFunction(name, func, RawDefs[i])

CallerMutationNext ==
    \/ \E name \in Names, func \in Callables, i \in 1..Len(RawDefs) :
            CallerRegisterFunction(name, func, RawDefs[i])
    \/ \E name \in Names : CallerUnregisterFunction(name)
    \/ \E name \in Names, func \in Callables, i \in 1..Len(RawDefs) :
            CallerUpdateFunction(name, func, RawDefs[i])

\* call_function with max_retries left to its default
DefaultCallNext ==
    \E name \in Names, i \in 1..Len(ParamMaps), k \in 0..MaxFails :
        CallFunction(name, ParamMaps[i], DefaultMaxRetries, k)

\* call_function with an explicit max_retries
CallNext ==
    \E name \in Names, i \in 1..Len(ParamMaps), max_retries \in RetryValues, k \in 0..MaxFails :
        CallFunction(name, ParamMaps[i], max_retries, k)

\* registry and caller used together, calls with the default max_retries
Next == RegistryNext \/ CallerMutationNext \/ UpdateSystemPrompt \/ DefaultCallNext

Spec == Init /\ [][Next]_vars

\* the registry is reached only through the caller; calls with any max_retries
CallerNext == CallerMutationNext \/ CallNext

CallerSpec == Init /\ [][CallerNext]_vars

-----------------------------------------------------------------------------
(* The stateless validation operations: the arguments are drawn at the     *)
(* start and the one step applies the operation to them.                   *)

Letters == {"A", "H", "a", "b", "c", "e", "l", "o", "r", "t", "u", "x"}

\* "^[A-Za-z]+$" over the characters that occur in the values
LettersOnly == <<[k |-> "^"], [k |-> "plus", cs |-> Letters], [k |-> "$"]>>

\* "abc"
Abc == <<[k |-> "lit", c |-> "a"], [k |-> "lit", c |-> "b"], [k |-> "lit", c |-> "c"]>>

NumberItems == [type |-> "number", description |-> "item", minimum |-> 0, maximum |-> 2]

\* a nested definition ParameterSchema cannot be built from (no description)
MalformedItems == [type |-> "string"]

\* keyword arguments of ParameterSchema without `required`: every kind
\* without constraints, then the constraints the kinds take
ParameterDefs ==
    << [type |-> "string", description |-> "d"],
       [type |-> "number", description |-> "d"],
       [type |-> "boolean", description |-> "d"],
       [type |-> "array", description |-> "d"],
       [type |-> "object", description |-> "d"],
       [type |-> "enum", description |-> "d"],
       [type |-> "string", description |-> "d", pattern |-> LettersOnly],
       [type |-> "string", description |-> "d", pattern |-> Abc],
       [type |-> "string", description |-> "d", pattern |-> <<>>],
       [type |-> "number", description |-> "d", minimum |-> 0],
       [type |-> "number", description |-> "d", maximum |-> 1],
       [type |-> "number", description |-> "d", minimum |-> 0, maximum |-> 1],
       [type |-> "number", description |-> "d", minimum |-> 1],
       [type |-> "array", description |-> "d", items |-> NumberItems],
       [type |-> "array", description |-> "d",
        items |-> [type |-> "string", description |-> "item"]],
       [type |-> "array", description |-> "d",
        items |-> [type |-> "number", description |-> "item", required |-> TRUE]],
       [type |-> "array", description |-> "d",
        items |-> [type |-> "array", description |-> "item", items |-> MalformedItems]],
       [type |-> "array", description |-> "d", items |-> MalformedItems],
       [type |-> "object", description |-> "d",
        properties |-> <<[k |-> "name", v |-> [type |-> "string", description |-> "n",
                                               required |-> TRUE]],
                         [k |-> "age", v |-> [type |-> "number", description |-> "a",
                                              minimum |-> 0]]>>],
       [type |-> "object", description |-> "d",
        properties |-> <<[k |-> "name", v |-> MalformedItems]>>],
       [type |-> "enum", description |-> "d",
        enum_values |-> <<StrV(<<"r", "e">>), StrV(<<"A", "l">>)>>],
       [type |-> "enum", description |-> "d", enum_values |-> <<IntV(1), IntV(2)>>],
       [type |-> "enum", description |-> "d", enum_values |-> <<>>] >>

\* the same keyword arguments with required=True and with required=False
WithRequired(defs, required) ==
    [i \in 1..Len(defs) |-> [required |-> required] @@ defs[i]]

ParameterSchemas ==
    ParameterDefs \o WithRequired(ParameterDefs, TRUE) \o WithRequired(ParameterDefs, FALSE)

Values ==
    << NoneV,
       StrV(<<"A", "l">>), StrV(<<"t", "r", "u", "e">>), StrV(<<"A", "1">>), StrV(<<>>),
       StrV(<<"H", "e", "l", "l", "o">>),
       StrV(<<"H", "e", "l", "l", "o", "1", "2", "3">>),
       StrV(<<"H", "e", "l", "l", "o", "\n">>),
       StrV(<<"a", "b", "c">>), StrV(<<"a", "b", "c", "x">>), StrV(<<"a", "b">>),
       StrV(<<"x", "a", "b", "c", "x">>),
       IntV(0 - 1), IntV(0), IntV(1), IntV(2), IntV(5), FloatV(0), FloatV(2),
       BoolV(TRUE), BoolV(FALSE),
       ListV(<<>>),
       ListV(<<IntV(1)>>),
       ListV(<<IntV(0 - 1), IntV(5)>>),
       ListV(<<IntV(5), IntV(0 - 1)>>),
       ListV(<<IntV(1), StrV(<<"A", "l">>)>>),
       ListV(<<StrV(<<"A", "l">>), ListV(<<>>)>>),
       ListV(<<ListV(<<>>), StrV(<<"A", "l">>)>>),
       ListV(<<NoneV>>),
       DictV(<<>>),
       DictV(<<[k |-> "name", v |-> StrV(<<"A", "l">>)]>>),
       DictV(<<[k |-> "name", v |-> IntV(1)]>>),
       DictV(<<[k |-> "name", v |-> NoneV]>>),
       DictV(<<[k |-> "other", v |-> IntV(1)]>>),
       DictV(<<[k |-> "name", v |-> StrV(<<"A", "l">>)], [k |-> "other", v |-> IntV(1)]>>),
       DictV(<<[k |-> "name", v |-> StrV(<<"A", "l">>)], [k |-> "other", v |-> NoneV]>>),
       DictV(<<[k |-> "other", v |-> IntV(1)], [k |-> "age", v |-> IntV(0 - 1)]>>),
       DictV(<<[k |-> "age", v |-> IntV(0 - 1)], [k |-> "name", v |-> IntV(1)]>>) >>

\* arguments of FunctionSchema(...): the schema of the tests, the same with
\* no and with two required names, one whose required list names a parameter
\* that is not declared, and one with a nested definition that cannot be built
FunctionSchemaArgs ==
    << [parameters |-> <<[k |-> "name", v |-> NameParam], [k |-> "age", v |-> AgeParam]>>,
        required |-> <<"name">>],
       [parameters |-> <<[k |-> "name", v |-> NameParam], [k |-> "age", v |-> AgeParam]>>,
        required |-> <<>>],
       [parameters |-> <<[k |-> "name", v |-> NameParam], [k |-> "age", v |-> AgeParam]>>,
        required |-> <<"age", "name">>],
       [parameters |-> <<[k |-> "name", v |-> NameParam], [k |-> "age", v |-> AgeParam]>>,
        required |-> <<"zzz">>],
       [parameters |-> <<[k |-> "name", v |-> [required |-> TRUE] @@ NameParam],
                         [k |-> "age", v |-> [type |-> "array", description |-> "d",
                                              items |-> MalformedItems]]>>,
        required |-> <<>>] >>

\* parameter maps over the keys name, age and the undeclared zzz, in both
\* orders of insertion where the order decides which check comes first
ParameterMaps ==
    << <<>>,
       <<[k |-> "name", v |-> Alice]>>,
       <<[k |-> "name", v |-> IntV(1)]>>,
       <<[k |-> "name", v |-> NoneV]>>,
       <<[k |-> "age", v |-> IntV(25)]>>,
       <<[k |-> "zzz", v |-> IntV(1)]>>,
       <<[k |-> "name", v |-> Alice], [k |-> "age", v |-> IntV(25)]>>,
       <<[k |-> "name", v |-> Alice], [k |-> "age", v |-> IntV(0 - 1)]>>,
       <<[k |-> "age", v |-> IntV(0 - 1)], [k |-> "name", v |-> Alice]>>,
       <<[k |-> "name", v |-> IntV(1)], [k |-> "age", v |-> IntV(0 - 1)]>>,
       <<[k |-> "age", v |-> IntV(0 - 1)], [k |-> "name", v |-> IntV(1)]>>,
       <<[k |-> "name", v |-> Alice], [k |-> "zzz", v |-> IntV(1)]>>,
       <<[k |-> "zzz", v |-> IntV(1)], [k |-> "name", v |-> Alice]>>,
       <<[k |-> "age", v |-> IntV(0 - 1)], [k |-> "zzz", v |-> IntV(1)]>>,
       <<[k |-> "zzz", v |-> IntV(1)], [k |-> "age", v |-> IntV(0 - 1)]>>,
       <<[k |-> "name", v |-> Alice], [k |-> "age", v |-> IntV(0 - 1)],
         [k |-> "zzz", v |-> IntV(1)]>>,
       <<[k |-> "name", v |-> Alice], [k |-> "age", v |-> ListV(<<>>)]>>,
       <<[k |-> "age", v |-> ListV(<<>>)], [k |-> "name", v |-> NoneV]>> >>

\* FunctionSchema(..., **given.schema).validate_parameters(given.params)
ValidatesParameters ==
    /\ given.fn = "validate_parameters" /\ last.op = "init"
    /\ last' = Outcome("validate_parameters", "",
                       ValidateParameters(
                           FunctionSchema("test_function", "A test function",
                                          given.schema.parameters, given.schema.required),
                           given.params),
                       <<>>, 0)
    /\ UNCHANGED <<functions, schemas, system_prompt, given, threads, overlapped>>

Param1 == [type |-> "string", description |-> "First parameter"]

\* values of the "parameters" field of a raw definition
RawParameters ==
    << DictV(<<>>),
       DictV(<<[k |-> "param1", v |-> Param1]>>),
       DictV(<<[k |-> "param1", v |-> [type |-> "invalid_type",
                                       description |-> "First parameter"]]>>),
       DictV(<<[k |-> "param1", v |-> [description |-> "First parameter"]]>>),
       DictV(<<[k |-> "param1", v |-> [type |-> "string"]]>>),
       DictV(<<[k |-> "param1", v |-> Param1],
               [k |-> "param2", v |-> [type |-> "number", description |-> "Second parameter",
                                       minimum |-> 0]]>>),
       DictV(<<[k |-> "param1", v |-> Param1],
               [k |-> "param2", v |-> [description |-> "Second parameter"]]>>),
       DictV(<<[k |-> "param1", v |-> [type |-> "string", description |-> "First parameter",
                                       default |-> 0]]>>),
       ListV(<<>>) >>

\* values of the "required" field: a declared and an undeclared name
RawRequired == << <<>>, <<"param1">>, <<"zzz">> >>

RawFields == {"name", "description", "parameters", "required"}

\* the raw definition with the fields `fields` only
RawDefinition(fields, parameters, required) ==
    LET full == [name |-> "test_function", description |-> "A test function",
                 parameters |-> parameters, required |-> required]
    IN  [f \in fields |-> full[f]]

\* ParameterSchema(**given.schema).validate(given.value)
Validates ==
    /\ given.fn = "validate" /\ last.op = "init"
    /\ last' = Outcome("validate", "", Validate(ParameterSchema(given.schema), given.value),
                       <<>>, 0)
    /\ UNCHANGED <<functions, schemas, system_prompt, given, threads, overlapped>>

\* FunctionValidator.validate_function_definition(given.schema)
ValidatesFunctionDefinition ==
    /\ given.fn = "validate_function_definition" /\ last.op = "init"
    /\ last' = Outcome("validate_function_definition", "",
                       ValidateFunctionDefinition(given.schema), <<>>, 0)
    /\ UNCHANGED <<functions, schemas, system_prompt, given, threads, overlapped>>

\* example values of every type the isinstance chain tells apart
ExampleValues ==
    << StrV(<<"t", "e">>), IntV(42), IntV(0), FloatV(1), BoolV(TRUE), BoolV(FALSE),
       ListV(<<IntV(1), IntV(2)>>), ListV(<<>>),
       DictV(<<[k |-> "key", v |-> StrV(<<"A", "l">>)]>>), NoneV, OtherV >>

\* the dict of examples with first_param = ExampleValues[i] and then
\* second_param = ExampleValues[j]; an index of 0 leaves the key out
ExampleParams(i, j) ==
    (IF i = 0 THEN <<>> ELSE <<[k |-> "first_param", v |-> ExampleValues[i]]>>)
    \o (IF j = 0 THEN <<>> ELSE <<[k |-> "second_param", v |-> ExampleValues[j]]>>)

\* FunctionValidator.create_schema_from_parameters(given.params)
CreatesSchema ==
    /\ given.fn = "create_schema_from_parameters" /\ last.op = "init"
    /\ LET r == CreateSchemaFromParameters(given.params)
       IN  last' = Outcome("create_schema_from_parameters", "", r, r.result, 0)
    /\ UNCHANGED <<functions, schemas, system_prompt, given, threads, overlapped>>

ValidationInit ==
    /\ functions = EmptyDict
    /\ schemas = EmptyDict
    /\ system_prompt = BuildSystemPrompt(EmptyDict)
    /\ last = Outcome("init", "", Ok, <<>>, 0)
    /\ threads = NoThreads
    /\ overlapped = FALSE
    /\ \/ \E i \in 1..Len(ParameterSchemas), j \in 1..Len(Values) :
              given = [fn |-> "validate", schema |-> ParameterSchemas[i], value |-> Values[j]]
       \/ \E i \in 1..Len(FunctionSchemaArgs), j \in 1..Len(ParameterMaps) :
              given = [fn |-> "validate_parameters", schema |-> FunctionSchemaArgs[i],
                       params |-> ParameterMaps[j]]
       \/ \E fields \in SUBSET RawFields,
             i \in 1..Len(RawParameters), j \in 1..Len(RawRequired) :
              given = [fn |-> "validate_function_definition",
                       schema |-> RawDefinition(fields, RawParameters[i], RawRequired[j])]
       \/ \E i \in 0..Len(ExampleValues), j \in 0..Len(ExampleValues) :
              given = [fn |-> "create_schema_from_parameters", params |-> ExampleParams(i, j)]

ValidationNext ==
    Validates \/ ValidatesParameters \/ ValidatesFunctionDefinition \/ CreatesSchema

ValidationSpec == ValidationInit /\ [][ValidationNext]_vars

\* the call of `given` has been made and `last` is its outcome
Returned(fn) == given.fn = fn /\ last.op = fn

TypeOK ==
    /\ DictKeys(functions) \subseteq Names
    /\ \A i \in 1..Len(functions) : functions[i].v \in Callables
    /\ last.exc \in {"none", "ValidationError", "ValueError", "TypeError", "RuntimeError"}

-----------------------------------------------------------------------------
(* The registry and call_function used from several threads with no lock. *)
(* A step of a thread is one access to a shared dict (a membership test,  *)
(* a get, a store or a del) together with the work on the thread's own    *)
(* locals that follows it up to the next access.                          *)

Threads == {1, 2}

\* the name every thread works on
SharedName == "f"

\* a thread outside every operation; op, exc and msg tell how the operation
\* it ran last ended
Returns(op, e) ==
    [pc |-> "idle", op |-> op, exc |-> e.exc, msg |-> e.msg,
     func |-> "", schema |-> 0, parameters |-> 0, k |-> 0, function |-> <<>>]

\* a thread inside operation op, about to execute the line pc names
Reaches(pc, op, func, schema, parameters, k, function) ==
    [pc |-> pc, op |-> op, exc |-> "none", msg |-> "",
     func |-> func, schema |-> schema, parameters |-> parameters, k |-> k,
     function |-> function]

\* thread t enters an operation: it overlaps when another thread is inside one
Enters(t) == overlapped \/ \E u \in Threads \ {t} : threads[u].pc # "idle"

ThreadInit ==
    /\ functions = EmptyDict
    /\ schemas = EmptyDict
    /\ system_prompt = BuildSystemPrompt(EmptyDict)
    /\ last = Outcome("init", "", Ok, <<>>, 0)
    /\ given = NoCall
    /\ threads = [t \in Threads |-> Returns("none", Ok)]
    /\ overlapped = FALSE

\* register, lines 16-29: the membership test and the building of the schema
ThreadRegisterCheck(t, func, i) ==
    /\ threads[t].pc = "idle"
    /\ LET e == RegisterExc(SharedName, RawDefs[i])
       IN  threads' = [threads EXCEPT ![t] =
               IF e.exc # "none" THEN Returns("register", e)
               ELSE Reaches("register_31", "register", func, i, 0, 0, <<>>)]
    /\ overlapped' = Enters(t)
    /\ UNCHANGED <<functions, schemas, system_prompt, last, given>>

\* register, line 31: self._schemas[name] = function_schema
ThreadRegisterStoreSchema(t) ==
    /\ threads[t].pc = "register_31"
    /\ schemas' = DictSet(schemas, SharedName, BuildSchema(RawDefs[threads[t].schema]))
    /\ threads' = [threads EXCEPT ![t].pc = "register_32"]
    /\ UNCHANGED <<functions, system_prompt, last, given, overlapped>>

\* register, line 32: self._functions[name] = func
ThreadRegisterStoreFunction(t) ==
    /\ threads[t].pc = "register_32"
    /\ functions' = DictSet(functions, SharedName, threads[t].func)
    /\ threads' = [threads EXCEPT ![t] = Returns("register", Ok)]
    /\ UNCHANGED <<schemas, system_prompt, last, given, overlapped>>

\* unregister, lines 41-42
ThreadUnregisterCheck(t) ==
    /\ threads[t].pc = "idle"
    /\ LET e == UnregisterExc(SharedName)
       IN  threads' = [threads EXCEPT ![t] =
               IF e.exc # "none" THEN Returns("unregister", e)
               ELSE Reaches("unregister_44", "unregister", "", 0, 0, 0, <<>>)]
    /\ overlapped' = Enters(t)
    /\ UNCHANGED <<functions, schemas, system_prompt, last, given>>

\* unregister, line 44: del self._functions[name], a KeyError when the key
\* has gone since the test
ThreadUnregisterDelFunction(t) ==
    /\ threads[t].pc = "unregister_44"
    /\ IF DictHas(functions, SharedName)
       THEN /\ functions' = DictDel(functions, SharedName)
            /\ threads' = [threads EXCEPT ![t].pc = "unregister_45"]
       ELSE /\ functions' = functions
            /\ threads' = [threads EXCEPT ![t] =
                   Returns("unregister", Raise("KeyError", SharedName))]
    /\ UNCHANGED <<schemas, system_prompt, last, given, overlapped>>

\* unregister leaving line 45 out
ThreadUnregisterDelSchemaSkipped(t) ==
    /\ threads[t].pc = "unregister_45"
    /\ threads' = [threads EXCEPT ![t] = Returns("unregister", Ok)]
    /\ UNCHANGED <<functions, schemas, system_prompt, last, given, overlapped>>

\* unregister, line 45: del self._schemas[name]
ThreadUnregisterDelSchema(t) ==
    /\ threads[t].pc = "unregister_45"
    /\ IF DictHas(schemas, SharedName)
       THEN /\ schemas' = DictDel(schemas, SharedName)
            /\ threads' = [threads EXCEPT ![t] = Returns("unregister", Ok)]
       ELSE /\ schemas' = schemas
            /\ threads' = [threads EXCEPT ![t] =
                   Returns("unregister", Raise("KeyError", SharedName))]
    /\ UNCHANGED <<functions, system_prompt, last, given, overlapped>>

\* update_function, lines 50-63
ThreadUpdateCheck(t, new_func, i) ==
    /\ threads[t].pc = "idle"
    /\ LET e == UpdateExc(SharedName, RawDefs[i])
       IN  threads' = [threads EXCEPT ![t] =
               IF e.exc # "none" THEN Returns("update_function", e)
               ELSE Reaches("update_65", "update_function", new_func, i, 0, 0, <<>>)]
    /\ overlapped' = Enters(t)
    /\ UNCHANGED <<functions, schemas, system_prompt, last, given>>

\* update_function, line 65: self._schemas[name] = function_schema
ThreadUpdateStoreSchema(t) ==
    /\ threads[t].pc = "update_65"
    /\ schemas' = DictSet(schemas, SharedName, BuildSchema(RawDefs[threads[t].schema]))
    /\ threads' = [threads EXCEPT ![t].pc = "update_66"]
    /\ UNCHANGED <<functions, system_prompt, last, given, overlapped>>

\* update_function, line 66: self._functions[name] = new_func
ThreadUpdateStoreFunction(t) ==
    /\ threads[t].pc = "update_66"
    /\ functions' = DictSet(functions, SharedName, threads[t].func)
    /\ threads' = [threads EXCEPT ![t] = Returns("update_function", Ok)]
    /\ UNCHANGED <<schemas, system_prompt, last, given, overlapped>>

\* call_function, lines 111-113: function = self.registry.get_function(name)
ThreadCallGetFunction(t, j, k) ==
    /\ threads[t].pc = "idle"
    /\ LET function == GetFunction(functions, SharedName)
       IN  threads' = [threads EXCEPT ![t] =
               IF function = <<>>
               THEN Returns("call",
                            Raise("ValueError", "Function " \o SharedName \o " not found"))
               ELSE Reaches("call_115", "call", "", 0, j, k, function)]
    /\ overlapped' = Enters(t)
    /\ UNCHANGED <<functions, schemas, system_prompt, last, given>>

\* call_function, lines 115-141: schema = self.registry.get_schema(name),
\* then the validation and the retry loop on the thread's own locals
ThreadCallGetSchema(t) ==
    /\ threads[t].pc = "call_115"
    /\ LET schema == GetSchema(schemas, SharedName)
           e == IF schema = <<>>
                THEN Raise("ValueError",
                           "Schema for function " \o SharedName \o " not found")
                ELSE LET v == ValidateParameters(schema[1],
                                                 ParamMaps[threads[t].parameters])
                     IN  IF v.exc # "none" THEN v
                         ELSE RetryLoop(SharedName, threads[t].function[1],
                                        DefaultMaxRetries, threads[t].k, 0, <<>>)
       IN  threads' = [threads EXCEPT ![t] = Returns("call", e)]
    /\ UNCHANGED <<functions, schemas, system_prompt, last, given, overlapped>>

ThreadNext ==
    \E t \in Threads :
        \/ \E func \in Callables, i \in 1..Len(RawDefs) : ThreadRegisterCheck(t, func, i)
        \/ ThreadRegisterStoreSchema(t)
        \/ ThreadRegisterStoreFunction(t)
        \/ ThreadUnregisterCheck(t)
        \/ ThreadUnregisterDelFunction(t)
        \/ ThreadUnregisterDelSchema(t)
        \/ \E func \in Callables, i \in 1..Len(RawDefs) : ThreadUpdateCheck(t, func, i)
        \/ ThreadUpdateStoreSchema(t)
        \/ ThreadUpdateStoreFunction(t)
        \/ \E j \in 1..Len(ParamMaps), k \in 0..MaxFails : ThreadCallGetFunction(t, j, k)
        \/ ThreadCallGetSchema(t)

ThreadSpec == ThreadInit /\ [][ThreadNext]_vars

-----------------------------------------------------------------------------
(* Properties of the registry.  A step is an operation on `name` when the  *)
(* outcome it leaves in `last` says so; the action is then matched against *)
(* each of its possible arguments.                                         *)

IsStepOf(ops, name) == last'.op \in ops /\ last'.name = name

RegisterOps == {"register", "register_function"}
UnregisterOps == {"unregister", "unregister_function"}
UpdateOps == {"update_function", "caller_update_function"}

AnyRegister(name, func, schema) ==
    \/ last'.op = "register" /\ Register(name, func, schema)
    \/ last'.op = "register_function" /\ CallerRegisterFunction(name, func, schema)

AnyUnregister(name) ==
    \/ last'.op = "unregister" /\ Unregister(name)
    \/ last'.op = "unregister_function" /\ CallerUnregisterFunction(name)

AnyUpdate(name, func, schema) ==
    \/ last'.op = "update_function" /\ UpdateFunction(name, func, schema)
    \/ last'.op = "caller_update_function" /\ CallerUpdateFunction(name, func, schema)

RegistryUnchanged == functions' = functions /\ schemas' = schemas

\* every entry other than that of `name` is what it was
OthersUntouched(name) ==
    \A m \in Names \ {name} :
        /\ GetFunction(functions', m) = GetFunction(functions, m)
        /\ GetSchema(schemas', m) = GetSchema(schemas, m)

\* C1: in every reachable state the callable map and the schema map have the
\* same names: get_function(n) is None exactly when get_schema(n) is None.
C1_SameNames ==
    /\ DictKeys(functions) = DictKeys(schemas)
    /\ \A n \in Names : (GetFunction(functions, n) = <<>>) <=> (GetSchema(schemas, n) = <<>>)

\* a failed update on a registry that holds one name and not the other
C1_Witness ==
    /\ last.op = "update_function" /\ last.exc # "none"
    /\ DictHas(functions, "f") /\ ~DictHas(schemas, "g")

\* C2: register on a name that is already registered fails, whatever the
\* callable handed in, and leaves every entry of both maps as it was.
C2_DuplicateRegisterFails ==
    [][\A name \in Names :
          (IsStepOf(RegisterOps, name) /\ DictHas(functions, name)) =>
              \A func \in Callables, i \in 1..Len(RawDefs) :
                  AnyRegister(name, func, RawDefs[i])
                      => (last'.exc # "none" /\ RegistryUnchanged)]_vars

\* a duplicate register of "f" was refused and "f" is still there
C2_Witness ==
    /\ last.op = "register" /\ last.name = "f"
    /\ last.msg = "Function 'f' is already registered"
    /\ DictHas(functions, "f") /\ DictHas(schemas, "f")

\* C3: register on an absent name with a definition that
\* validate_function_definition rejects raises ValidationError and leaves the
\* registry unchanged, the name absent from both maps.
C3_InvalidRegisterLeavesAbsent ==
    [][\A name \in Names :
          (IsStepOf(RegisterOps, name) /\ ~DictHas(functions, name)) =>
              \A func \in Callables, i \in 1..Len(RawDefs) :
                  (/\ ValidateFunctionDefinition(RawDefs[i]).exc # "none"
                   /\ AnyRegister(name, func, RawDefs[i]))
                      => (/\ last'.exc = "ValidationError"
                          /\ RegistryUnchanged
                          /\ GetFunction(functions', name) = <<>>
                          /\ GetSchema(schemas', name) = <<>>)]_vars

\* the definition without a description was refused for the absent name "g"
C3_Witness ==
    /\ last.op = "register" /\ last.name = "g"
    /\ last.msg = "Missing required field in function definition: description"
    /\ ~DictHas(functions, "g") /\ ~DictHas(schemas, "g")

\* C4: unregister fails with the registry unchanged when the name is absent;
\* when it is registered, the callable and the schema are both removed and
\* every other entry is untouched.
C4_Unregister ==
    [][\A name \in Names :
          (IsStepOf(UnregisterOps, name) /\ AnyUnregister(name)) =>
              IF DictHas(functions, name)
              THEN /\ last'.exc = "none"
                   /\ GetFunction(functions', name) = <<>>
                   /\ GetSchema(schemas', name) = <<>>
                   /\ OthersUntouched(name)
              ELSE last'.exc # "none" /\ RegistryUnchanged]_vars

\* "f" was unregistered while "g" stays registered
C4_Witness ==
    /\ last.op = "unregister" /\ last.name = "f" /\ last.exc = "none"
    /\ ~DictHas(functions, "f") /\ DictHas(functions, "g")

\* C5: update_function on an absent name fails and creates nothing: the
\* name is absent from both maps afterwards.
C5_UpdateIsNoUpsert ==
    [][\A name \in Names :
          (IsStepOf(UpdateOps, name) /\ ~DictHas(functions, name)) =>
              \A func \in Callables, i \in 1..Len(RawDefs) :
                  AnyUpdate(name, func, RawDefs[i])
                      => (/\ last'.exc # "none"
                          /\ RegistryUnchanged
                          /\ GetFunction(functions', name) = <<>>
                          /\ GetSchema(schemas', name) = <<>>)]_vars

\* an update of the absent name "g" was refused
C5_Witness ==
    /\ last.op = "update_function" /\ last.name = "g"
    /\ last.msg = "Function g not found in registry"
    /\ ~DictHas(functions, "g") /\ ~DictHas(schemas, "g")

\* a definition update_function accepts: validate_function_definition passes
\* and every parameter entry has only the keys of the documented shape
Accepted(schema) ==
    /\ ValidateFunctionDefinition(schema).exc = "none"
    /\ \A j \in 1..Len(schema.parameters.v) :
           DOMAIN schema.parameters.v[j].v \subseteq ParameterSchemaKwargs

\* the definitions of RawDefs that are accepted
AcceptedDefs == {i \in 1..Len(RawDefs) : Accepted(RawDefs[i])}

\* C6: update_function on a registered name replaces callable and schema as
\* a unit: an accepted definition installs the new callable and the new
\* schema, any other definition fails and leaves the old callable and the
\* old schema; a mixed pair is never left behind.
C6_UpdateReplacesPair ==
    [][\A name \in Names :
          (IsStepOf(UpdateOps, name) /\ DictHas(functions, name)) =>
              \A func \in Callables, i \in 1..Len(RawDefs) :
                  AnyUpdate(name, func, RawDefs[i]) =>
                      IF i \in AcceptedDefs
                      THEN /\ last'.exc = "none"
                           /\ GetFunction(functions', name) = <<func>>
                           /\ GetSchema(schemas', name) # <<>>
                           /\ DictGet(schemas', name).name = RawDefs[i].name
                           /\ DictGet(schemas', name).description = RawDefs[i].description
                           /\ DictKeys(DictGet(schemas', name).parameters)
                                  = DictKeys(RawDefs[i].parameters.v)
                      ELSE /\ last'.exc # "none"
                           /\ GetFunction(functions', name) = GetFunction(functions, name)
                           /\ GetSchema(schemas', name) = GetSchema(schemas, name)]_vars

\* "f" now holds the new callable together with the new schema
C6_Witness ==
    /\ last.op = "update_function" /\ last.name = "f" /\ last.exc = "none"
    /\ GetFunction(functions, "f") = <<"new_func">>
    /\ DictHas(schemas, "f")
    /\ DictGet(schemas, "f").description = "Updated test function"

\* C7: per name the lifecycle is absent -> registered -> (updated)* -> absent:
\* register succeeds only from absent and leaves the name registered, update
\* and unregister succeed only from registered, update keeps it registered,
\* unregister makes it absent, and the name can then be registered again.
C7_Lifecycle ==
    [][\A name \in Names :
          /\ (IsStepOf(RegisterOps, name) /\ last'.exc = "none")
                => (~DictHas(functions, name) /\ DictHas(functions', name))
          /\ (IsStepOf(UpdateOps, name) /\ last'.exc = "none")
                => (DictHas(functions, name) /\ DictHas(functions', name))
          /\ (IsStepOf(UnregisterOps, name) /\ last'.exc = "none")
                => (/\ DictHas(functions, name)
                    /\ ~DictHas(functions', name)
                    /\ (RegisterExc(name, RawDefs[1]).exc = "none")')]_vars

\* "f" was unregistered while "g" stays, and "f" can be registered again
C7_Witness ==
    /\ last.op = "unregister_function" /\ last.name = "f" /\ last.exc = "none"
    /\ ~DictHas(functions, "f") /\ DictHas(functions, "g")
    /\ RegisterExc("f", RawDefs[1]).exc = "none"

-----------------------------------------------------------------------------
(* Properties of the caller.                                               *)

\* C8: when the registry is reached only through the caller, the cached
\* prompt equals the listing built from the registry after every call,
\* failed or not.
C8_PromptInSync == system_prompt = BuildSystemPrompt(schemas)

\* a call_function returned while two functions are listed
C8_Witness ==
    /\ last.op = "call" /\ last.exc = "none"
    /\ Len(schemas) = 2 /\ Len(system_prompt) = 3

\* the listing built from the registry: the sentinel exactly when nothing is
\* registered, otherwise the header and one line per registered function
C9_Built ==
    LET listing == BuildSystemPrompt(schemas)
        fns == ListFunctions(schemas)
    IN  /\ (listing = <<"No functions are currently available.">>) <=> (functions = <<>>)
        /\ functions # <<>> =>
              /\ Len(listing) = 1 + Len(functions)
              /\ listing[1] = "Available functions:\n\n"
              /\ \A i \in 1..Len(fns) :
                     listing[i + 1] = "- " \o fns[i].name \o ": " \o fns[i].description \o "\n"
              /\ \A n \in DictKeys(functions) :
                     Cardinality({i \in 1..Len(fns) : fns[i].name = n}) = 1

\* C9: the built listing is the sentinel exactly when no function is
\* registered and otherwise the header followed by one "- name: description"
\* line per registered function in list_functions() order; unregistering the
\* only function through the caller brings the prompt back to the sentinel.
C9_Listing ==
    /\ []C9_Built
    /\ [][\A name \in Names :
             (/\ IsStepOf({"unregister_function"}, name)
              /\ last'.exc = "none"
              /\ Len(functions) = 1)
                => system_prompt' = <<"No functions are currently available.">>]_vars

\* the only function was unregistered through the caller
C9_Witness ==
    /\ last.op = "unregister_function" /\ last.exc = "none"
    /\ functions = <<>>
    /\ system_prompt = <<"No functions are currently available.">>

\* C10: call_function with max_retries = N >= 1 on a registered name with
\* valid parameters and a callable that fails k times and then succeeds
\* returns the callable's result after exactly k + 1 invocations when k < N
\* and raises the terminal error after exactly N invocations when k >= N.
C10_RetryCountsAttempts ==
    [][\A name \in Names :
          (last'.op = "call" /\ last'.name = name /\ DictHas(functions, name)) =>
              \A i \in 1..Len(ParamMaps) :
                  ValidateParameters(DictGet(schemas, name), ParamMaps[i]).exc = "none" =>
                      \A N \in 1..MaxRetries, k \in 0..MaxFails :
                          CallFunction(name, ParamMaps[i], N, k) =>
                              IF k < N
                              THEN /\ last'.exc = "none"
                                   /\ last'.result = <<DictGet(functions, name)>>
                                   /\ last'.invocations = k + 1
                              ELSE /\ last'.exc = "RuntimeError"
                                   /\ last'.invocations = N]_vars

\* the callable failed twice and succeeded on the third of three attempts
C10_Witness ==
    /\ last.op = "call" /\ last.exc = "none"
    /\ last.invocations = MaxRetries /\ last.result # <<>>

\* C11: call_function invokes the callable only when the name is registered
\* and the parameters pass validate_parameters.  On an unregistered name the
\* call fails with the lookup error (ValueError), on invalid parameters it
\* fails with the ValidationError of validate_parameters; in both cases the
\* callable is invoked zero times, whatever max_retries is.
C11_NoInvocationWithoutValidation ==
    [][\A name \in Names :
          (last'.op = "call" /\ last'.name = name) =>
              IF ~DictHas(functions, name)
              THEN last'.exc = "ValueError" /\ last'.invocations = 0
              ELSE \A i \in 1..Len(ParamMaps) :
                       LET v == ValidateParameters(DictGet(schemas, name), ParamMaps[i])
                       IN  v.exc # "none" =>
                               \/ /\ last'.exc = "ValidationError"
                                  /\ last'.msg = v.msg
                                  /\ last'.invocations = 0
                                  /\ last'.result = <<>>
                               \/ \A N \in RetryValues, k \in 0..MaxFails :
                                      ~CallFunction(name, ParamMaps[i], N, k)]_vars

\* a call on a registered name was refused by validate_parameters
C11_Witness ==
    /\ last.op = "call" /\ last.exc = "ValidationError"
    /\ last.invocations = 0
    /\ DictHas(functions, last.name)

\* C12: for every max_retries, zero and negative values included,
\* call_function raises the terminal error (RuntimeError) only after at least
\* one invocation of the callable, every invocation made having failed, and
\* the error carries the description of the last failed invocation.
C12_TerminalErrorAfterAnAttempt ==
    [][\A name \in Names :
          (last'.op = "call" /\ last'.name = name /\ last'.exc = "RuntimeError") =>
              \A i \in 1..Len(ParamMaps), N \in RetryValues, k \in 0..MaxFails :
                  CallFunction(name, ParamMaps[i], N, k) =>
                      /\ last'.invocations >= 1
                      /\ last'.invocations <= k
                      /\ last'.msg = "Function execution failed: "
                                         \o ErrorOf(last'.invocations)]_vars

\* C13: a Number schema rejects every boolean value, True and False, with or
\* without minimum and maximum set: validate raises ValidationError on it.
C13_NumberRejectsBooleans ==
    (/\ Returned("validate")
     /\ given.schema.type = "number"
     /\ given.value.t = "bool")
        => last.exc = "ValidationError"

\* the schema kind a value's runtime type belongs to
KindOf(value) ==
    CASE value.t = "str" -> "string"
      [] value.t = "bool" -> "boolean"
      [] value.t \in {"int", "float"} -> "number"
      [] value.t = "list" -> "array"
      [] value.t = "dict" -> "object"
      [] OTHER -> "none"

Unconstrained(pd) == DOMAIN pd \subseteq {"type", "description", "required"}

\* C14: for the kinds String, Boolean, Array and Object, validate fails on a
\* non-null value of another runtime kind and succeeds on a value of the
\* schema's kind when no constraint is set; in particular a Boolean schema
\* rejects the integers 0 and 1 and the string "true".
C14_KindMismatchFails ==
    (/\ Returned("validate")
     /\ given.schema.type \in {"string", "boolean", "array", "object"}
     /\ given.value.t # "none")
        => /\ KindOf(given.value) # given.schema.type => last.exc = "ValidationError"
           /\ (KindOf(given.value) = given.schema.type /\ Unconstrained(given.schema))
                  => last.exc = "none"
           /\ (/\ given.schema.type = "boolean"
               /\ \/ (given.value.t = "int" /\ given.value.v \in {0, 1})
                  \/ (given.value.t = "str" /\ given.value.v = <<"t", "r", "u", "e">>))
                  => /\ last.exc = "ValidationError"
                     /\ last.msg = "Expected boolean"

\* a Boolean schema has refused the integer 1
C14_Witness ==
    /\ Returned("validate")
    /\ given.schema.type = "boolean"
    /\ given.value.t = "int" /\ given.value.v = 1
    /\ last.exc = "ValidationError"

\* the parameter schema validate_parameters delegates the value of
\* given.params[i] to
Declared(i) == ParameterSchema(DictGet(given.schema.parameters, given.params[i].k))

\* C15: validate_parameters succeeds exactly when every name of `required`
\* is a key of the map, every key of the map is a declared parameter and
\* every value passes the validate of its parameter's schema; a declared
\* parameter that is not required may be left out.
C15_ValidateParametersIff ==
    Returned("validate_parameters") =>
        (last.exc = "none" <=>
            /\ \A r \in 1..Len(given.schema.required) :
                   DictHas(given.params, given.schema.required[r])
            /\ \A i \in 1..Len(given.params) :
                   /\ DictHas(given.schema.parameters, given.params[i].k)
                   /\ Validate(Declared(i), given.params[i].v).exc = "none")

\* the call succeeded on a map that leaves the declared parameter age out
C15_Witness ==
    /\ Returned("validate_parameters")
    /\ last.exc = "none"
    /\ given.schema.required = <<"name">>
    /\ DictHas(given.schema.parameters, "age")
    /\ DictKeys(given.params) = {"name"}

\* positions of the required names that are not keys of the map
MissingRequired ==
    {r \in 1..Len(given.schema.required) :
        ~DictHas(given.params, given.schema.required[r])}

\* positions of the map's keys that are not declared parameters
UnknownKeys ==
    {i \in 1..Len(given.params) : ~DictHas(given.schema.parameters, given.params[i].k)}

\* the error of validate_parameters is the wrapped error of a value
IsValueError ==
    \E i \in 1..Len(given.params) :
        /\ DictHas(given.schema.parameters, given.params[i].k)
        /\ last.msg = "Invalid value for parameter '" \o given.params[i].k \o "': "
                          \o Validate(Declared(i), given.params[i].v).msg

\* C16: validate_parameters reports a missing required name first (the first
\* one missing), otherwise an unknown key if the map has one, even when a
\* declared key of the map has an invalid value, and the error of a value
\* only when no required name is missing and no key is unknown.
C16_ErrorOrder ==
    (Returned("validate_parameters") /\ last.exc = "ValidationError") =>
        IF MissingRequired # {}
        THEN LET r == CHOOSE m \in MissingRequired : \A n \in MissingRequired : m <= n
             IN  last.msg = "Required parameter '" \o given.schema.required[r] \o "' is missing"
        ELSE IF UnknownKeys # {}
        THEN \E i \in UnknownKeys : last.msg = "Unknown parameter: " \o given.params[i].k
        ELSE IsValueError

\* the item schema of the array schema in `given`
ItemValidator == ParameterSchema(given.schema.items)

\* positions of the elements of the list in `given` that the item schema refuses
FailingElements ==
    {i \in 1..Len(given.value.v) : Validate(ItemValidator, given.value.v[i]).exc # "none"}

\* C17: an Array schema whose items is a definition a ParameterSchema can be
\* built from validates the elements in order and fails with the error of
\* the first failing element; it succeeds exactly when the value is a list
\* all of whose elements pass, so the empty list passes.
C17_ArrayItemsInOrder ==
    (/\ Returned("validate")
     /\ given.schema.type = "array"
     /\ "items" \in DOMAIN given.schema
     /\ ParameterSchemaInitExc(given.schema.items).exc = "none"
     /\ given.value.t # "none")
        => IF given.value.t # "list"
           THEN last.exc = "ValidationError" /\ last.msg = "Expected array"
           ELSE IF FailingElements = {}
           THEN last.exc = "none"
           ELSE LET first == CHOOSE i \in FailingElements : \A j \in FailingElements : i <= j
                    r == Validate(ItemValidator, given.value.v[first])
                IN  last.exc = r.exc /\ last.msg = r.msg

\* the list [-1, 5] failed on its first element, below the minimum, and not
\* on its second, above the maximum
C17_Witness ==
    /\ Returned("validate")
    /\ given.schema.type = "array" /\ "items" \in DOMAIN given.schema
    /\ ParameterSchemaInitExc(given.schema.items).exc = "none"
    /\ given.value.t = "list"
    /\ Cardinality(FailingElements) = 2
    /\ last.msg = "Value is less than minimum"

\* the entries of the dict in `given` whose key is a listed property
ListedEntries ==
    SelectSeq(given.value.v, LAMBDA e : DictHas(given.schema.properties, e.k))

\* the listed property p of the schema in `given` accepts its value in the dict
PropertyPasses(p) ==
    /\ ParameterSchemaInitExc(given.schema.properties[p].v).exc = "none"
    /\ Validate(ParameterSchema(given.schema.properties[p].v),
                DictGet(given.value.v, given.schema.properties[p].k)).exc = "none"

\* C18: validation of a dict against an Object schema with properties set
\* succeeds exactly when every listed property that is a key of the dict
\* passes its nested schema: a listed property that is missing is not an
\* error, also when its nested schema has required=True, and the outcome is
\* that of the dict stripped of its unlisted entries.
C18_ObjectIsOpen ==
    (/\ Returned("validate")
     /\ given.schema.type = "object"
     /\ "properties" \in DOMAIN given.schema
     /\ given.value.t = "dict")
        => /\ last.exc = "none" <=>
                  \A p \in 1..Len(given.schema.properties) :
                      DictHas(given.value.v, given.schema.properties[p].k) => PropertyPasses(p)
           /\ LET stripped == Validate(ParameterSchema(given.schema), DictV(ListedEntries))
              IN  last.exc = stripped.exc /\ last.msg = stripped.msg

\* a dict with an unlisted entry and without the listed property whose nested
\* schema has required=True was accepted
C18_Witness ==
    /\ Returned("validate")
    /\ given.schema.type = "object" /\ "properties" \in DOMAIN given.schema
    /\ given.value.t = "dict"
    /\ \E p \in 1..Len(given.schema.properties) :
           /\ "required" \in DOMAIN given.schema.properties[p].v
           /\ given.schema.properties[p].v.required
           /\ ~DictHas(given.value.v, given.schema.properties[p].k)
    /\ ListedEntries = <<>> /\ given.value.v # <<>>
    /\ last.exc = "none"

\* the keyword arguments pd ask for required=True
RequiredSet(pd) == "required" \in DOMAIN pd /\ pd.required

\* C19: for every kind and every setting of the constraints validate(None)
\* succeeds exactly when required is false, an Enum schema without
\* enum_values included; on a value other than None an Enum schema fails
\* when enum_values is unset and otherwise succeeds exactly when the value
\* equals (Python ==) a member of enum_values.
C19_NoneAndEnum ==
    Returned("validate") =>
        /\ given.value.t = "none" =>
               /\ last.exc = "none" <=> ~RequiredSet(given.schema)
               /\ last.exc # "none" =>
                      /\ last.exc = "ValidationError"
                      /\ last.msg = "Required parameter is missing"
        /\ (given.value.t # "none" /\ given.schema.type = "enum") =>
               IF "enum_values" \notin DOMAIN given.schema
               THEN last.exc = "ValidationError"
               ELSE /\ last.exc \in {"none", "ValidationError"}
                    /\ last.exc = "none" <=>
                           \E m \in 1..Len(given.schema.enum_values) :
                               PyEq(given.schema.enum_values[m], given.value)

\* None was accepted by an Enum schema that has no enum_values
C19_Witness ==
    /\ Returned("validate")
    /\ given.schema.type = "enum" /\ "enum_values" \notin DOMAIN given.schema
    /\ given.value.t = "none"
    /\ last.exc = "none"

\* C20: validate_function_definition succeeds exactly when the raw
\* definition has the keys name, description and parameters, parameters is a
\* dict, and every entry of it has type and description with type one of the
\* six kind strings; the required list is not examined.
C20_DefinitionIff ==
    Returned("validate_function_definition") =>
        /\ last.exc \in {"none", "ValidationError"}
        /\ last.exc = "none" <=>
               /\ {"name", "description", "parameters"} \subseteq DOMAIN given.schema
               /\ given.schema.parameters.t = "dict"
               /\ \A i \in 1..Len(given.schema.parameters.v) :
                      LET entry == given.schema.parameters.v[i].v
                      IN  /\ {"type", "description"} \subseteq DOMAIN entry
                          /\ entry.type \in {"string", "number", "boolean",
                                             "array", "object", "enum"}

\* a definition whose required list names a parameter it does not declare
\* was accepted
C20_Witness ==
    /\ Returned("validate_function_definition")
    /\ last.exc = "none"
    /\ "required" \in DOMAIN given.schema
    /\ \E r \in 1..Len(given.schema.required) :
           ~DictHas(given.schema.parameters.v, given.schema.required[r])

\* C21: create_schema_from_parameters returns one entry per key of the
\* example dict, in the order of the keys, whose type follows the priority
\* string, boolean, number, array, object (a bool example gives "boolean"),
\* and raises ValidationError, returning nothing, when some example value is
\* of another type, None included.
C21_SchemaFromExamples ==
    Returned("create_schema_from_parameters") =>
        IF \A i \in 1..Len(given.params) : KindOf(given.params[i].v) # "none"
        THEN /\ last.exc = "none"
             /\ Len(last.result) = 1
             /\ Len(last.result[1]) = Len(given.params)
             /\ \A i \in 1..Len(given.params) :
                    /\ last.result[1][i].k = given.params[i].k
                    /\ last.result[1][i].v.type = KindOf(given.params[i].v)
        ELSE /\ last.exc = "ValidationError"
             /\ last.result = <<>>

\* a schema was returned for a bool example followed by an int example
C21_Witness ==
    /\ Returned("create_schema_from_parameters")
    /\ last.exc = "none"
    /\ Len(given.params) = 2
    /\ given.params[1].v.t = "bool" /\ given.params[2].v.t = "int"
    /\ last.result[1][1].v.type = "boolean"
    /\ last.result[1][2].v.type = "number"

\* C22 as stated: a duplicate register, and unregister, update_function and
\* call_function on a name that is not registered, all fail with the lookup
\* error (ValueError) and none of them with ValidationError.
C22_StateErrorsAreLookupErrors ==
    [][\A name \in Names :
          /\ (IsStepOf(RegisterOps, name) /\ DictHas(functions, name))
                 => last'.exc = "ValueError"
          /\ (IsStepOf(UnregisterOps \cup UpdateOps \cup {"call"}, name)
                /\ ~DictHas(functions, name))
                 => last'.exc = "ValueError"]_vars

\* C22, amended: unregister, update_function and call_function on a name
\* that is not registered fail with the lookup error (ValueError), never with
\* ValidationError, while a duplicate register fails with ValidationError
\* ("already registered"), the kind of the validation failures.
C22_NotRegisteredIsLookupError ==
    [][\A name \in Names :
          /\ (IsStepOf(RegisterOps, name) /\ DictHas(functions, name))
                 => /\ last'.exc = "ValidationError"
                    /\ last'.msg = "Function '" \o name \o "' is already registered"
          /\ (IsStepOf(UnregisterOps \cup UpdateOps \cup {"call"}, name)
                /\ ~DictHas(functions, name))
                 => last'.exc = "ValueError"]_vars

\* unregister_function on a name that is not registered raised the lookup
\* error while another name is registered
C22_Witness ==
    /\ last.op = "unregister_function" /\ last.exc = "ValueError"
    /\ ~DictHas(functions, last.name)
    /\ functions # <<>>

DirectOps == {"register", "unregister", "update_function"}

CallerOps == {"register_function", "unregister_function", "caller_update_function"}

\* C23 as stated: a mutation made directly on the registry leaves the cached
\* prompt as it is, and the prompt changes at no step other than a
\* register_function, unregister_function or update_function call on the
\* caller.
C23_StaleUntilCallerMutation ==
    [][/\ last'.op \in DirectOps => system_prompt' = system_prompt
       /\ system_prompt' # system_prompt => last'.op \in CallerOps]_vars

\* C23, amended: a mutation made directly on the registry leaves the cached
\* prompt as it is; the prompt changes only at a successful
\* register_function, unregister_function or update_function call on the
\* caller or at a call of update_system_prompt(), and then it becomes the
\* listing of the registry as it is after that call.
C23_StaleUntilRebuild ==
    [][/\ last'.op \in DirectOps => system_prompt' = system_prompt
       /\ system_prompt' # system_prompt =>
              /\ last'.op \in CallerOps \cup {"update_system_prompt"}
              /\ last'.exc = "none"
              /\ system_prompt' = BuildSystemPrompt(schemas')]_vars

\* after a direct register the prompt is still the sentinel computed at
\* construction although a function is registered
C23_Witness ==
    /\ last.op = "register" /\ last.exc = "none"
    /\ functions # <<>>
    /\ system_prompt = BuildSystemPrompt(EmptyDict)
    /\ system_prompt # BuildSystemPrompt(schemas)

\* the names of list_functions() in the order it returns them
ListedNames(ss) == [i \in 1..Len(ss) |-> ListFunctions(ss)[i].name]

\* the sequence s without its element at position p
Without(s, p) == [i \in 1..(Len(s) - 1) |-> IF i < p THEN s[i] ELSE s[i + 1]]

\* list_functions() has one pair per registered function, named by the
\* registry key and described by the schema stored under that key
C24_OnePairPerFunction ==
    LET listing == ListFunctions(schemas)
    IN  /\ Len(listing) = Cardinality(DictKeys(functions))
        /\ \A n \in Names :
               Cardinality({i \in 1..Len(listing) : listing[i].name = n})
                   = IF GetFunction(functions, n) = <<>> THEN 0 ELSE 1
        /\ \A i \in 1..Len(listing) :
               listing[i].description = GetSchema(schemas, listing[i].name)[1].description

\* C24: list_functions() returns one {name, description} pair per registered
\* function, the name being the registry key and the description that of the
\* current schema, in the order of first registration: a successful
\* update_function keeps the entry's position and gives it the new
\* description, a register appends, an unregister removes the entry and keeps
\* the order of the others, so unregister then register moves it to the end.
C24_ListFunctions ==
    /\ []C24_OnePairPerFunction
    /\ [][\A name \in Names :
             LET before == ListFunctions(schemas)
                 after == ListFunctions(schemas')
             IN  /\ (IsStepOf(UnregisterOps, name) /\ last'.exc = "none") =>
                        \E p \in 1..Len(before) :
                            /\ before[p].name = name
                            /\ after = Without(before, p)
                 /\ (IsStepOf(RegisterOps \cup UpdateOps, name) /\ last'.exc = "none") =>
                        \A func \in Callables, i \in 1..Len(RawDefs) :
                            /\ AnyRegister(name, func, RawDefs[i]) =>
                                   after = Append(before,
                                                  [name |-> name,
                                                   description |-> RawDefs[i].description])
                            /\ AnyUpdate(name, func, RawDefs[i]) =>
                                   /\ ListedNames(schemas') = ListedNames(schemas)
                                   /\ \A p \in 1..Len(before) :
                                          after[p] = IF before[p].name = name
                                                     THEN [name |-> name,
                                                           description |->
                                                               RawDefs[i].description]
                                                     ELSE before[p]]_vars

\* "f" was updated to the second definition and is still listed ahead of "g"
C24_Witness ==
    /\ last.op = "update_function" /\ last.name = "f" /\ last.exc = "none"
    /\ ListedNames(schemas) = <<"f", "g">>
    /\ ListFunctions(schemas)[1].description = "Updated test function"
    /\ GetSchema(schemas, "f")[1].name = "test_func"

\* C25: a Number schema on an int or float value fails exactly when the
\* value is below minimum (when set) or above maximum (when set); a value
\* equal to a bound is accepted and a bound of 0 is enforced.
C25_InclusiveBounds ==
    (/\ Returned("validate")
     /\ given.schema.type = "number"
     /\ given.value.t \in {"int", "float"})
        => /\ last.exc \in {"none", "ValidationError"}
           /\ last.exc = "ValidationError" <=>
                  \/ "minimum" \in DOMAIN given.schema
                        /\ given.value.v < given.schema.minimum
                  \/ "maximum" \in DOMAIN given.schema
                        /\ given.value.v > given.schema.maximum

\* the value -1 was refused by a schema whose only bound is minimum = 0
C25_Witness ==
    /\ Returned("validate")
    /\ given.schema.type = "number"
    /\ "minimum" \in DOMAIN given.schema /\ "maximum" \notin DOMAIN given.schema
    /\ given.schema.minimum = 0
    /\ given.value.t = "int" /\ given.value.v = 0 - 1
    /\ last.msg = "Value is less than minimum"

\* the value starts with the characters of the literal pattern
HasPrefix(pattern, value) ==
    /\ Len(pattern) <= Len(value)
    /\ \A i \in 1..Len(pattern) : value[i] = pattern[i].c

\* C26: a String schema with a pattern accepts a str value exactly when the
\* pattern matches from the first character of the value on; the match need
\* not reach the end of the value, so "abc" accepts every value that starts
\* with abc ("abcx" too), and "^[A-Za-z]+$" rejects "Hello123".
C26_MatchFromStart ==
    (/\ Returned("validate")
     /\ given.schema.type = "string"
     /\ "pattern" \in DOMAIN given.schema
     /\ given.value.t = "str")
        => /\ last.exc \in {"none", "ValidationError"}
           /\ last.exc = "none" <=> ReMatch(given.schema.pattern, given.value.v)
           /\ given.schema.pattern = Abc =>
                  (last.exc = "none" <=> HasPrefix(Abc, given.value.v))
           /\ (/\ given.schema.pattern = LettersOnly
               /\ given.value.v = <<"H", "e", "l", "l", "o", "1", "2", "3">>)
                  => last.msg = "String does not match pattern"

\* the pattern "abc" accepted "abcx"
C26_Witness ==
    /\ Returned("validate")
    /\ given.schema.type = "string" /\ "pattern" \in DOMAIN given.schema
    /\ given.schema.pattern = Abc
    /\ given.value.t = "str" /\ given.value.v = <<"a", "b", "c", "x">>
    /\ last.exc = "none"

\* C27 as stated: a String schema with the pattern "abc" accepts the value
\* "xabcx", in which the pattern occurs only after the first character.
C27_AcceptsLaterOccurrence ==
    (/\ Returned("validate")
     /\ given.schema.type = "string" /\ "pattern" \in DOMAIN given.schema
     /\ given.schema.pattern = Abc
     /\ given.value.t = "str" /\ given.value.v = <<"x", "a", "b", "c", "x">>)
        => last.exc = "none"

\* C27, amended: a String schema with the pattern "abc" rejects the value
\* "xabcx" with ValidationError, the pattern not occurring at the first
\* character.
C27_RejectsLaterOccurrence ==
    (/\ Returned("validate")
     /\ given.schema.type = "string" /\ "pattern" \in DOMAIN given.schema
     /\ given.schema.pattern = Abc
     /\ given.value.t = "str" /\ given.value.v = <<"x", "a", "b", "c", "x">>)
        => /\ last.exc = "ValidationError"
           /\ last.msg = "String does not match pattern"

\* validate was called with the pattern "abc" on "xabcx" and raised
C27_Witness ==
    /\ Returned("validate")
    /\ given.schema.type = "string" /\ "pattern" \in DOMAIN given.schema
    /\ given.schema.pattern = Abc
    /\ given.value.t = "str" /\ given.value.v = <<"x", "a", "b", "c", "x">>
    /\ last.exc # "none"

\* whenever get_function(name) returns a callable, get_schema(name) returns
\* a schema
C28_CallableHasSchema ==
    \A name \in Names : GetFunction(functions, name) # <<>> => GetSchema(schemas, name) # <<>>

\* C28: in every state reached through register, unregister and
\* update_function, on the registry or on the caller, a name that has a
\* callable has a schema, and no call_function step fails with "Schema for
\* function <name> not found".
C28_SchemaNotFoundUnreachable ==
    /\ []C28_CallableHasSchema
    /\ [][last'.op = "call" =>
             last'.msg # "Schema for function " \o last'.name \o " not found"]_vars

\* with both names registered a call passed the two lookups and the
\* validation and invoked the callable once
C28_Witness ==
    /\ last.op = "call" /\ last.exc = "none" /\ last.invocations = 1
    /\ Len(functions) = 2
    /\ GetSchema(schemas, last.name) # <<>>

\* C29: call_function changes neither the callable map, nor the schema map,
\* nor the cached prompt, whatever its outcome: lookup failure, validation
\* failure, success on any attempt or terminal failure (the callables of the
\* model do not touch the registry).
C29_CallLeavesRegistryAndPrompt ==
    [][last'.op = "call" =>
          /\ functions' = functions
          /\ schemas' = schemas
          /\ system_prompt' = system_prompt]_vars

\* a call ended with the terminal error and the prompt, stale before the
\* call, is still the stale one
C29_Witness ==
    /\ last.op = "call" /\ last.exc = "RuntimeError"
    /\ last.invocations = DefaultMaxRetries
    /\ system_prompt # BuildSystemPrompt(schemas)

\* the names of `required` that are not declared parameters
UndeclaredRequired ==
    {given.schema.required[r] : r \in {q \in 1..Len(given.schema.required) :
        ~DictHas(given.schema.parameters, given.schema.required[q])}}

\* C30: against a function schema whose required list names a parameter that
\* is not declared, validate_parameters fails for every parameter map: with
\* the missing-required error when the map omits a required name, and with
\* the unknown-parameter error when it supplies the undeclared one; so the
\* callable of such a function is never reached.
C30_UndeclaredRequiredBlocks ==
    (Returned("validate_parameters") /\ UndeclaredRequired # {}) =>
        /\ last.exc = "ValidationError"
        /\ IF MissingRequired # {}
           THEN \E r \in MissingRequired :
                    last.msg = "Required parameter '" \o given.schema.required[r]
                                   \o "' is missing"
           ELSE \E n \in UndeclaredRequired : last.msg = "Unknown parameter: " \o n

\* the definition made of the parameter definitions a call of
\* create_schema_from_parameters returned, with a name and a description
InferredDefinition ==
    [name |-> "test_function", description |-> "A test function",
     parameters |-> DictV(last.result[1])]

\* C31: whenever create_schema_from_parameters returns parameter
\* definitions for an example map (every value a string, boolean, number,
\* sequence or mapping), the definition carrying them passes
\* validate_function_definition, the FunctionSchema is built from them
\* without an exception, and its validate_parameters accepts the example
\* map itself.
C31_InferenceRoundTrip ==
    (Returned("create_schema_from_parameters") /\ last.exc = "none") =>
        /\ ValidateFunctionDefinition(InferredDefinition).exc = "none"
        /\ FunctionSchemaInitExc(last.result[1], 1).exc = "none"
        /\ ValidateParameters(
               FunctionSchema("test_function", "A test function", last.result[1], <<>>),
               given.params).exc = "none"

\* definitions were returned for a sequence example followed by a bool
\* example, and the round trip over them succeeds
C31_Witness ==
    /\ Returned("create_schema_from_parameters")
    /\ last.exc = "none"
    /\ Len(given.params) = 2
    /\ given.params[1].v.t = "list" /\ Len(given.params[1].v.v) = 2
    /\ given.params[2].v.t = "bool"
    /\ last.result[1][1].v.type = "array"
    /\ last.result[1][2].v.type = "boolean"
    /\ ValidateParameters(
           FunctionSchema("test_function", "A test function", last.result[1], <<>>),
           given.params).exc = "none"

AllIdle == \A t \in Threads : threads[t].pc = "idle"

\* no call_function that got the callable has found the schema missing
LookupPaired ==
    \A t \in Threads :
        ~(/\ threads[t].pc = "idle"
          /\ threads[t].op = "call"
          /\ threads[t].msg = "Schema for function " \o SharedName \o " not found")

\* with every thread outside its operation the two dicts hold the same names
FinalPaired == AllIdle => DictKeys(functions) = DictKeys(schemas)

\* a store of register (line 31, line 32) writes a key that is absent
RegisterKeepsEntry ==
    \A t \in Threads :
        /\ (threads[t].pc = "register_31" /\ threads'[t].pc = "register_32")
               => ~DictHas(schemas, SharedName)
        /\ (threads[t].pc = "register_32" /\ threads'[t].pc = "idle")
               => ~DictHas(functions, SharedName)

\* C32 as stated: with register, unregister, update_function and
\* call_function of several threads interleaved, with no lock, at the
\* accesses to the two dicts, no call_function finds a callable without its
\* schema, no state with every operation finished has a name in one dict
\* only, and no register overwrites an entry that is present.
C32_PairedWithNoLock ==
    [](LookupPaired /\ FinalPaired) /\ [][RegisterKeepsEntry]_vars

\* C32, amended: the same holds as long as no operation was entered while
\* another was under way, that is, when the operations on the name run one
\* at a time, each to its end; and, however the operations interleave, no
\* state with every operation finished has a schema without its callable.
C32_PairedWhenSerial ==
    /\ [](~overlapped => (LookupPaired /\ FinalPaired))
    /\ [](AllIdle => DictKeys(schemas) \subseteq DictKeys(functions))
    /\ [][~overlapped' => RegisterKeepsEntry]_vars

\* with no overlap so far, a second register of the present name was
\* refused after a call_function found both the callable and its schema
C32_Witness ==
    /\ ~overlapped
    /\ AllIdle
    /\ threads[1].op = "register" /\ threads[1].exc = "ValidationError"
    /\ threads[2].op = "call" /\ threads[2].exc = "none"
    /\ DictKeys(functions) = {SharedName}
    /\ DictKeys(schemas) = {SharedName}

====
